---------------------------- MODULE Spec2Model ----------------------------
(***************************************************************************)
(* The rules engine of the Abalone game of src/src/App.jsx: move           *)
(* enumeration (moves / getPossibleMoves), the click map (moveMap), the    *)
(* cell click handlers and move application (executeMove / makeMove).      *)
(*                                                                         *)
(* src/src/App.jsx holds two builds of the component AbaloneGame:          *)
(*   build 1 (lines 1-229):   gameState object, moves, executeMove;        *)
(*   build 2 (lines 231-582): board/scores/... states, getPossibleMoves,   *)
(*                            handleCellClick, makeMove.                   *)
(* The variable build says which of the two is running; build 3 is the     *)
(* variant with a rematch of src/unnamed/part_000 (lines 728-1015).        *)
(*                                                                         *)
(* Spec:      sequential play: every client's snapshot is the stored one   *)
(*            (each write is followed by the other client's poll before it *)
(*            clicks).                                                     *)
(* SpecClick: the same handlers, with the history of the last click kept   *)
(*            in the variable click.                                       *)
(* SpecSync:  play over the store: each client works on its own copy of    *)
(*            the stored snapshot, refreshed by polls (fetchGame /         *)
(*            loadGame) and written back by PUT requests (updateFirebase / *)
(*            saveGame) that take time.                                    *)
(* SpecJoin:  the lobby: two clients join over the store (handleJoin /     *)
(*            startGame).                                                  *)
(* SpecFull:  the lobby of a game both of whose slots are taken.            *)
(* SpecRematch: the end of a game of the variant with a rematch: the       *)
(*            clients click PLAY AGAIN (handleRematch).                    *)
(* SpecGame:  a whole game: the clients join an empty store and then play  *)
(*            from the initial position; SpecGameFair is SpecGame with the *)
(*            interval polls and the network answers taken fairly.         *)
(***************************************************************************)
EXTENDS Integers, Sequences, FiniteSets, TLC

VARIABLES
    build,        \* 1 or 2: the build of AbaloneGame that runs (3: the rematch variant)
    gameState,    \* the game snapshot: board, currentTurn, scores, winner, gameStarted, players
    playerRole,   \* client -> "black" | "white"
    selected,     \* client -> sequence of cells, in the order the code keeps them
    nMoves,       \* number of moves applied (SpecRematch: of rematches asked for) so far
    last,         \* the last applied move with the snapshot it was applied to
    click,        \* the last click: who, where, the selection and snapshot before it
    store,        \* SpecSync, SpecJoin: the record stored at games/<id>.json
    local,        \* client -> its copy of the stored record (its React state)
    puts,         \* client -> its PUT requests in flight, oldest first
    polls,        \* client -> the GET responses on their way to it, oldest first
    reads,        \* client -> the GET response startGame is waiting for (0 or 1)
    writes,       \* client -> moves it has written since the turn last passed to it
    loading       \* client -> its loading flag (set while a join is under way)

\* the variables of sequential play, and those of play over the store
playVars == <<gameState, last, click>>

syncVars == <<store, local, puts, polls, reads, writes, loading>>

vars == <<build, gameState, playerRole, selected, nMoves, last, click,
          store, local, puts, polls, reads, writes, loading>>

-----------------------------------------------------------------------------
(* Bounds of the model *)

\* moves applied in one behaviour
MaxMoves == 2

\* cells a client may hold selected while it is not its turn
MaxWaitSel == 1

\* moves applied in one behaviour that keeps the history of the clicks
MaxClickMoves == 1

\* cells a client may hold selected while it is not its turn, in such a behaviour
MaxClickWaitSel == 0

\* SpecSync: the clients click on the first MaxSyncCell cells of CELLS
MaxSyncCell == 5

\* SpecSync: PUT requests of moves sent in one behaviour
MaxSyncMoves == 2

\* SpecSync, SpecJoin, SpecGame: responses of interval polls on their way to one client
MaxPollsInFlight == 1

\* SpecGame: PUT requests of moves sent in one behaviour
MaxGameMoves == 1

\* SpecRematch: clicks on PLAY AGAIN in one behaviour
MaxRematches == 3

-----------------------------------------------------------------------------
(* Board topology: App.jsx lines 4-12 *)

CELLS ==
    <<15,16,17,18,19, 24,25,26,27,28,29, 33,34,35,36,37,38,39,
      42,43,44,45,46,47,48,49, 51,52,53,54,55,56,57,58,59,
      61,62,63,64,65,66,67,68, 71,72,73,74,75,76,77,
      81,82,83,84,85,86, 91,92,93,94,95>>

CELL_SET == {CELLS[i] : i \in 1..Len(CELLS)}

WHITE_INITIAL == <<15,16,17,18,19,24,25,26,27,28,29,35,36,37>>

BLACK_INITIAL == <<73,74,75,81,82,83,84,85,86,91,92,93,94,95>>

\* Dirs made to be the offsets 1, 9 and 11 of the README
DirsOfReadme == <<1, -1, 9, -9, 11, -11>>

\* the six signed direction offsets, in the order the code tries them
Dirs == <<1, -1, 9, -9, 10, -10>>

Colours == {"white", "black"}

Clients == {"c1", "c2"}

\* standardRows made to number the cells of every row from column 1 on
standardRowsFromOne ==
    << <<11,12,13,14,15>>, <<21,22,23,24,25,26>>, <<31,32,33,34,35,36,37>>,
       <<41,42,43,44,45,46,47,48>>, <<51,52,53,54,55,56,57,58,59>>,
       <<61,62,63,64,65,66,67,68>>, <<71,72,73,74,75,76,77>>,
       <<81,82,83,84,85,86>>, <<91,92,93,94,95>> >>

\* the rows of buttons of the board, top to bottom, as black sees them
standardRows ==
    << <<15,16,17,18,19>>, <<24,25,26,27,28,29>>, <<33,34,35,36,37,38,39>>,
       <<42,43,44,45,46,47,48,49>>, <<51,52,53,54,55,56,57,58,59>>,
       <<61,62,63,64,65,66,67,68>>, <<71,72,73,74,75,76,77>>,
       <<81,82,83,84,85,86>>, <<91,92,93,94,95>> >>

\* [...arr].reverse()
Reverse(s) == [i \in 1..Len(s) |-> s[Len(s) + 1 - i]]

\* white sees the rows bottom to top and every row right to left
displayRows(role) ==
    IF role = "white"
    THEN [i \in 1..Len(standardRows) |-> Reverse(Reverse(standardRows)[i])]
    ELSE standardRows

\* for (let c of candidates) if (CELL_SET.has(c)) neighbors.push(c)
RECURSIVE OnBoardOf(_)
OnBoardOf(candidates) ==
    IF candidates = <<>> THEN <<>>
    ELSE IF Head(candidates) \in CELL_SET
    THEN <<Head(candidates)>> \o OnBoardOf(Tail(candidates))
    ELSE OnBoardOf(Tail(candidates))

\* getNeighbors made to try the offsets 1, 9 and 11
getNeighborsOfReadme(cell) ==
    OnBoardOf(<<cell - 1, cell + 1, cell - 9, cell + 9, cell - 11, cell + 11>>)

getNeighbors(cell) ==
    OnBoardOf(<<cell - 1, cell + 1, cell - 9, cell + 9, cell - 10, cell + 10>>)

-----------------------------------------------------------------------------
(* JavaScript values *)

\* the elements of an array
Elems(s) == {s[i] : i \in 1..Len(s)}

\* arr.includes(x)
Includes(s, x) == \E i \in 1..Len(s) : s[i] = x

\* [...arr].sort((a,b) => a-b)
SortAsc(s) == SortSeq(s, LAMBDA a, b : a < b)

\* arr.filter(c => c !== x)
RECURSIVE FilterOut(_, _)
FilterOut(s, x) ==
    IF s = <<>> THEN <<>>
    ELSE IF Head(s) = x THEN FilterOut(Tail(s), x)
    ELSE <<Head(s)>> \o FilterOut(Tail(s), x)

\* a board is an object: its keys are the occupied cells
Has(b, c) == c \in DOMAIN b

\* b[c], with "none" for undefined
Get(b, c) == IF c \in DOMAIN b THEN b[c] ELSE "none"

\* delete b[c]
Delete(b, c) == [k \in (DOMAIN b) \ {c} |-> b[k]]

\* b[c] = v
Put(b, c, v) == [k \in (DOMAIN b) \cup {c} |-> IF k = c THEN v ELSE b[k]]

\* cells.forEach(c => delete b[c])
RECURSIVE DeleteEach(_, _)
DeleteEach(b, cells) ==
    IF cells = <<>> THEN b ELSE DeleteEach(Delete(b, Head(cells)), Tail(cells))

\* cells.forEach(c => b[c] = v)
RECURSIVE PutEach(_, _, _)
PutEach(b, cells, v) ==
    IF cells = <<>> THEN b ELSE PutEach(Put(b, Head(cells), v), Tail(cells), v)

Opponent(role) == IF role = "black" THEN "white" ELSE "black"

-----------------------------------------------------------------------------
(* Selection line test *)

\* isArithmeticSequence made to take the steps 1, 9 and 11 of the README
isArithmeticSequenceOfReadme(cells) ==
    IF Len(cells) <= 1 THEN TRUE
    ELSE LET sorted == SortAsc(cells)
             diff == sorted[2] - sorted[1]
         IN IF diff \notin {1, 9, 11} THEN FALSE
            ELSE \A i \in 1..Len(sorted) : i = 1 \/ sorted[i] - sorted[i-1] = diff

\* isArithmeticSequence made to test the first step only
isArithmeticFirstStep(cells) ==
    IF Len(cells) <= 1 THEN TRUE
    ELSE LET sorted == SortAsc(cells)
         IN sorted[2] - sorted[1] \in {1, 9, 10}

isArithmeticSequence(cells) ==
    IF Len(cells) <= 1 THEN TRUE
    ELSE LET sorted == SortAsc(cells)
             diff == sorted[2] - sorted[1]
         IN IF diff \notin {1, 9, 10} THEN FALSE
            ELSE \A i \in 1..Len(sorted) : i = 1 \/ sorted[i] - sorted[i-1] = diff

-----------------------------------------------------------------------------
(* Move enumeration *)

\* a move object; a simple move has no pushed cells and no triggerCell
SimpleMove(dir, cells) ==
    [dir |-> dir, cells |-> cells, type |-> "move", pushed |-> <<>>, triggerCell |-> 0]

PushMove(dir, cells, pushed, front) ==
    [dir |-> dir, cells |-> cells, type |-> "push", pushed |-> pushed, triggerCell |-> front]

\* PushWalk made to collect every piece, the mover's own too
RECURSIVE PushWalkAnyPiece(_, _, _, _)
PushWalkAnyPiece(board, cur, dir, role) ==
    IF cur \in CELL_SET /\ Has(board, cur)
    THEN <<cur>> \o PushWalkAnyPiece(board, cur + dir, dir, role)
    ELSE <<>>

\* the while loop that collects the pushed run, from cur on
RECURSIVE PushWalk(_, _, _, _)
PushWalk(board, cur, dir, role) ==
    IF cur \in CELL_SET /\ Has(board, cur) /\ board[cur] # role
    THEN <<cur>> \o PushWalk(board, cur + dir, dir, role)
    ELSE <<>>

\* Outnumbers made to let an equal number push
OutnumbersOrEqual(nPushed, nSelected) == nPushed > 0 /\ nPushed <= nSelected

\* the strict outnumbering test of the push
Outnumbers(nPushed, nSelected) == nPushed > 0 /\ nPushed < nSelected

\* TargetFree made to take any piece of the selection's colour for a selected one
TargetFreeOwn(board, sel, c) == ~Has(board, c) \/ Get(board, c) = Get(board, sel[1])

\* the simple-move test of one target cell
TargetFree(board, sel, c) == ~Has(board, c) \/ Includes(sel, c)

\* AllOnBoard made to ask for some cell, not every cell, to be on the board
SomeOnBoard(cells) == \E i \in 1..Len(cells) : cells[i] \in CELL_SET

\* targetCells.every(c => CELL_SET.has(c))
AllOnBoard(cells) == \A i \in 1..Len(cells) : cells[i] \in CELL_SET

\* MovesInDir made to take the selection in the order it was clicked
MovesInDirClickOrder(board, sel, role, dir) ==
    LET targetCells == [i \in 1..Len(sel) |-> sel[i] + dir]
    IN IF ~AllOnBoard(targetCells) THEN <<>>
       ELSE IF \A i \in 1..Len(targetCells) : TargetFree(board, sel, targetCells[i])
       THEN <<SimpleMove(dir, targetCells)>>
       ELSE IF Len(sel) > 1
       THEN LET diff == sel[2] - sel[1]
            IN IF dir = diff \/ dir = -diff
               THEN LET front == IF dir > 0 THEN sel[Len(sel)] ELSE sel[1]
                        pushed == PushWalk(board, front + dir, dir, role)
                        cur == front + dir * (Len(pushed) + 1)
                    IN IF Outnumbers(Len(pushed), Len(sel))
                          /\ (cur \notin CELL_SET \/ ~Has(board, cur))
                       THEN <<PushMove(dir, targetCells, pushed, front)>>
                       ELSE <<>>
               ELSE <<>>
       ELSE <<>>

\* the body of the loop over the directions: the moves pushed for dir
MovesInDir(board, sel, role, dir) ==
    LET sorted == SortAsc(sel)
        targetCells == [i \in 1..Len(sorted) |-> sorted[i] + dir]
    IN IF ~AllOnBoard(targetCells) THEN <<>>
       ELSE IF \A i \in 1..Len(targetCells) : TargetFree(board, sel, targetCells[i])
       THEN <<SimpleMove(dir, targetCells)>>
       ELSE IF Len(sel) > 1
       THEN LET diff == sorted[2] - sorted[1]
            IN IF dir = diff \/ dir = -diff
               THEN LET front == IF dir > 0 THEN sorted[Len(sorted)] ELSE sorted[1]
                        pushed == PushWalk(board, front + dir, dir, role)
                        cur == front + dir * (Len(pushed) + 1)
                    IN IF Outnumbers(Len(pushed), Len(sel))
                          /\ (cur \notin CELL_SET \/ ~Has(board, cur))
                       THEN <<PushMove(dir, targetCells, pushed, front)>>
                       ELSE <<>>
               ELSE <<>>
       ELSE <<>>

RECURSIVE MovesFrom(_, _, _, _)
MovesFrom(board, sel, role, k) ==
    IF k > Len(Dirs) THEN <<>>
    ELSE MovesInDir(board, sel, role, Dirs[k]) \o MovesFrom(board, sel, role, k + 1)

\* build 1: const moves = (() => {...})()
moves(gs, sel, role) ==
    IF Len(sel) = 0 \/ gs.currentTurn # role THEN <<>>
    ELSE MovesFrom(gs.board, sel, role, 1)

\* build 2: function getPossibleMoves()
getPossibleMoves(gs, sel, role) ==
    IF Len(sel) = 0 THEN <<>>
    ELSE MovesFrom(gs.board, sel, role, 1)

\* the moves a client's render computes
MovesOf(c) ==
    IF build = 1 THEN moves(gameState, selected[c], playerRole[c])
    ELSE getPossibleMoves(gameState, selected[c], playerRole[c])

-----------------------------------------------------------------------------
(* The click map *)

\* m.cells.find(c => !selected.includes(c)), 0 for undefined
RECURSIVE FindOutside(_, _)
FindOutside(cells, sel) ==
    IF cells = <<>> THEN 0
    ELSE IF ~Includes(sel, Head(cells)) THEN Head(cells)
    ELSE FindOutside(Tail(cells), sel)

\* build 1: the cells whose moveMap entry is m (before later moves overwrite it)
KeysOf1(m, sel) ==
    LET key == IF m.type = "push" THEN m.pushed[1] ELSE FindOutside(m.cells, sel)
    IN IF key # 0 THEN {key} ELSE {}

\* build 2: a push is also keyed by its triggerCell
KeysOf2(m, sel) ==
    IF m.type = "push" THEN {m.pushed[1], m.triggerCell}
    ELSE LET target == FindOutside(m.cells, sel)
         IN IF target # 0 THEN {target} ELSE {}

KeysOf(m, sel) == IF build = 1 THEN KeysOf1(m, sel) ELSE KeysOf2(m, sel)

\* moveMap[cell]: the last move of ms keyed by cell, as a set of 0 or 1 moves
MoveMapAt(ms, sel, cell) ==
    LET idx == {i \in 1..Len(ms) : cell \in KeysOf(ms[i], sel)}
    IN IF idx = {} THEN {}
       ELSE {ms[CHOOSE i \in idx : \A j \in idx : j <= i]}

-----------------------------------------------------------------------------
(* Move application *)

\* the score at which the game is won
WinScore == 6

\* Winner made to ask for more than WinScore
WinnerStrict(s) ==
    IF s["white"] > WinScore THEN "white"
    ELSE IF s["black"] > WinScore THEN "black"
    ELSE "none"

\* const win = s.white >= 6 ? 'white' : s.black >= 6 ? 'black' : null
Winner(s) ==
    IF s["white"] >= WinScore THEN "white"
    ELSE IF s["black"] >= WinScore THEN "black"
    ELSE "none"

\* PushSinglePass made to score the whole run once its far cell is off the board
PushScoresRun(bs, pushed, dir, role, opp) ==
    IF pushed = <<>> THEN bs
    ELSE IF pushed[Len(pushed)] + dir \in CELL_SET
    THEN [b |-> PutEach(DeleteEach(bs.b, pushed),
                        [i \in 1..Len(pushed) |-> pushed[i] + dir], opp),
          s |-> bs.s]
    ELSE [b |-> DeleteEach(bs.b, pushed),
          s |-> [bs.s EXCEPT ![role] = @ + Len(pushed)]]

\* build 1, executeMove: m.pushed.forEach(c => { delete; place or score })
RECURSIVE PushSinglePass(_, _, _, _, _)
PushSinglePass(bs, pushed, dir, role, opp) ==
    IF pushed = <<>> THEN bs
    ELSE LET c == Head(pushed)
             b1 == Delete(bs.b, c)
         IN IF c + dir \in CELL_SET
            THEN PushSinglePass([b |-> Put(b1, c + dir, opp), s |-> bs.s],
                                Tail(pushed), dir, role, opp)
            ELSE PushSinglePass([b |-> b1, s |-> [bs.s EXCEPT ![role] = @ + 1]],
                                Tail(pushed), dir, role, opp)

\* PlaceOrScore made to place every pushed piece, on the board or off it
RECURSIVE PlaceNoEdgeTest(_, _, _, _, _)
PlaceNoEdgeTest(bs, pushed, dir, role, opp) ==
    IF pushed = <<>> THEN bs
    ELSE PlaceNoEdgeTest([b |-> Put(bs.b, Head(pushed) + dir, opp), s |-> bs.s],
                         Tail(pushed), dir, role, opp)

\* build 2, makeMove: the second forEach (place or score each pushed piece)
RECURSIVE PlaceOrScore(_, _, _, _, _)
PlaceOrScore(bs, pushed, dir, role, opp) ==
    IF pushed = <<>> THEN bs
    ELSE LET target == Head(pushed) + dir
         IN IF target \in CELL_SET
            THEN PlaceOrScore([b |-> Put(bs.b, target, opp), s |-> bs.s],
                              Tail(pushed), dir, role, opp)
            ELSE PlaceOrScore([b |-> bs.b, s |-> [bs.s EXCEPT ![role] = @ + 1]],
                              Tail(pushed), dir, role, opp)

\* build 2, makeMove: delete all pushed cells first, then place or score
PushTwoPass(bs, pushed, dir, role, opp) ==
    PlaceOrScore([b |-> DeleteEach(bs.b, pushed), s |-> bs.s], pushed, dir, role, opp)

\* selected.forEach(c => delete b[c]); m.cells.forEach(c => b[c] = playerRole)
MoveSelection(b, sel, cells, role) == PutEach(DeleteEach(b, sel), cells, role)

\* build 1: the snapshot executeMove(m) writes
executeMove(gs, sel, role, m) ==
    LET opp == Opponent(role)
        bs0 == [b |-> gs.board, s |-> gs.scores]
        bs1 == IF m.type = "push" THEN PushSinglePass(bs0, m.pushed, m.dir, role, opp)
               ELSE bs0
        b == MoveSelection(bs1.b, sel, m.cells, role)
    IN [gs EXCEPT !.board = b, !.scores = bs1.s, !.winner = Winner(bs1.s),
                  !.currentTurn = opp]

\* makeMove made to give the mover another turn after an ejection
makeMoveExtraTurn(gs, sel, role, m) ==
    LET opponentRole == Opponent(role)
        bs0 == [b |-> gs.board, s |-> gs.scores]
        bs1 == IF m.type = "push"
               THEN PushTwoPass(bs0, m.pushed, m.dir, role, opponentRole)
               ELSE bs0
        newBoard == MoveSelection(bs1.b, sel, m.cells, role)
    IN [board |-> newBoard,
        currentTurn |-> IF bs1.s # gs.scores THEN role ELSE opponentRole,
        players |-> gs.players,
        gameStarted |-> TRUE, scores |-> bs1.s, winner |-> Winner(bs1.s)]

\* build 2: the snapshot makeMove(move) saves
makeMove(gs, sel, role, m) ==
    LET opponentRole == Opponent(role)
        bs0 == [b |-> gs.board, s |-> gs.scores]
        bs1 == IF m.type = "push"
               THEN PushTwoPass(bs0, m.pushed, m.dir, role, opponentRole)
               ELSE bs0
        newBoard == MoveSelection(bs1.b, sel, m.cells, role)
    IN [board |-> newBoard, currentTurn |-> opponentRole, players |-> gs.players,
        gameStarted |-> TRUE, scores |-> bs1.s, winner |-> Winner(bs1.s)]

-----------------------------------------------------------------------------
(* The position the behaviours start from *)

\* A mid-game position: every colour's pieces on the board plus the opponent's
\* score make 14, and no score has reached WinScore.
\*
\*   row 1          15w 16b 17b  .  19w
\*   row 2         .   .   .   .  .  29w
\*   row 3       .   .   .   .   .   .  39b
\*   row 4     .   .  44w  .   .   .   .  49b
\*   row 5   51b 52b 53b 54w 55w  .   .   .  59b
\*   row 6     .  62b  .   .  65w  .   .   .
\*   row 7       .   .   .  74w  .   .   .
\*   row 8         .   .  83b 84w  .   .
\*   row 9           .   .   .  94b  .
\*
\* Each of the six directions has a push in it: +1 (51,52,53 on 54,55),
\* -1 (17,16 on 15, off the edge), +9 (65,74 on 83), -9 (62,53 on 44),
\* +10 (74,84 on 94, off the edge), -10 (59,49,39 on 29,19, off the edge).
StartBlack == <<16,17, 39,49,59, 51,52,53, 62, 83, 94>>

StartWhite == <<15, 19,29, 44,54,55,65, 74,84>>

StartScores == [white |-> 3, black |-> 5]

\* Object.fromEntries([...white.map(c => [c,'white']), ...black.map(c => [c,'black'])])
BoardFrom(white, black) ==
    [c \in Elems(white) \cup Elems(black) |->
        IF c \in Elems(white) THEN "white" ELSE "black"]

NoMove ==
    [type |-> "none", dir |-> 0, cells |-> <<>>, pushed |-> <<>>, triggerCell |-> 0,
     sel |-> <<>>, role |-> "none", pre |-> [board |-> <<>>, scores |-> <<>>]]

\* no click is recorded (Spec) / no click has happened yet (SpecClick)
ClickOff ==
    [kind |-> "off", client |-> "none", cell |-> 0, pre |-> <<>>, moved |-> FALSE,
     gs |-> <<>>]

NoClick ==
    [kind |-> "none", client |-> "none", cell |-> 0, pre |-> <<>>, moved |-> FALSE,
     gs |-> <<>>]

InitPlay ==
    /\ build \in {1, 2}
    /\ \E turn \in Colours :
          gameState = [board |-> BoardFrom(StartWhite, StartBlack),
                       currentTurn |-> turn,
                       players |-> [black |-> TRUE, white |-> TRUE],
                       gameStarted |-> TRUE,
                       scores |-> StartScores,
                       winner |-> "none"]
    /\ playerRole = [c \in Clients |-> IF c = "c1" THEN "black" ELSE "white"]
    /\ selected = [c \in Clients |-> <<>>]
    /\ nMoves = 0
    /\ last = NoMove

\* useState defaults of build 2 (lines 270-276); also what fetchGame of build 1
\* sets while nothing is stored (line 55)
DefaultState ==
    [board |-> <<>>, currentTurn |-> "black",
     players |-> [black |-> FALSE, white |-> FALSE],
     gameStarted |-> FALSE, scores |-> [white |-> 0, black |-> 0], winner |-> "none"]

\* no request is in flight
Idle == [c \in Clients |-> <<>>]

\* sequential play does not use the store
NoSync ==
    /\ store = DefaultState
    /\ local = [c \in Clients |-> DefaultState]
    /\ puts = Idle
    /\ polls = Idle
    /\ reads = Idle
    /\ writes = [c \in Clients |-> 0]
    /\ loading = [c \in Clients |-> FALSE]

Init == InitPlay /\ click = ClickOff /\ NoSync

InitClick == InitPlay /\ click = NoClick /\ NoSync

-----------------------------------------------------------------------------
(* The handlers *)

\* what the applied move and the snapshot it was applied to were
Applied(c, m) ==
    [type |-> m.type, dir |-> m.dir, cells |-> m.cells, pushed |-> m.pushed,
     triggerCell |-> m.triggerCell, sel |-> SortAsc(selected[c]), role |-> playerRole[c],
     pre |-> gameState]

\* the bound on the selection of a client that is not on turn
WaitBound(c, sel) ==
    \/ gameState.currentTurn = playerRole[c]
    \/ Len(sel) <= (IF click.kind = "off" THEN MaxWaitSel ELSE MaxClickWaitSel)

\* the bound on the applied moves
MoveBound == IF click.kind = "off" THEN MaxMoves ELSE MaxClickMoves

\* the history of a click of client c on cell (not kept in Spec)
Clicked(c, cell, moved) ==
    IF click.kind = "off" THEN click
    ELSE [kind |-> "cell", client |-> c, cell |-> cell, pre |-> selected[c],
          moved |-> moved, gs |-> gameState]

\* the history of a click on the Clear Selection button
Cleared(c) ==
    IF click.kind = "off" THEN click
    ELSE [kind |-> "clear", client |-> c, cell |-> 0, pre |-> selected[c],
          moved |-> FALSE, gs |-> gameState]

\* build 1, cell onClick with mv set: executeMove(mv)
ExecuteMove(c) ==
    /\ build = 1
    /\ nMoves < MoveBound
    /\ LET ms == MovesOf(c)
       IN \E i \in 1..Len(CELLS) :
             \E m \in MoveMapAt(ms, selected[c], CELLS[i]) :
                /\ gameState' = executeMove(gameState, selected[c], playerRole[c], m)
                /\ last' = Applied(c, m)
                /\ click' = Clicked(c, CELLS[i], TRUE)
    /\ selected' = [selected EXCEPT ![c] = <<>>]
    /\ nMoves' = nMoves + 1
    /\ UNCHANGED <<build, playerRole>>
    /\ UNCHANGED syncVars

\* build 1, cell onClick with no mv (line 188): select, extend, deselect or restart
SelectClick(sel, cell) ==
    IF Includes(sel, cell) THEN FilterOut(sel, cell)
    ELSE IF Len(sel) < 3 /\ isArithmeticSequence(Append(sel, cell)) THEN Append(sel, cell)
    ELSE <<cell>>

\* build 1, cell onClick with no mv: color === playerRole && (...)
onClick(gs, sel, role, cell) ==
    IF Get(gs.board, cell) = role THEN SelectClick(sel, cell) ELSE sel

CellClick(c) ==
    /\ build = 1
    /\ nMoves < MoveBound
    /\ LET ms == MovesOf(c)
       IN \E i \in 1..Len(CELLS) :
             LET sel == onClick(gameState, selected[c], playerRole[c], CELLS[i])
             IN \* without the click history a click that is not on an own piece
                \* changes nothing: it is a stuttering step
                /\ click.kind # "off" \/ Get(gameState.board, CELLS[i]) = playerRole[c]
                /\ MoveMapAt(ms, selected[c], CELLS[i]) = {}
                /\ WaitBound(c, sel)
                /\ selected' = [selected EXCEPT ![c] = sel]
                /\ click' = Clicked(c, CELLS[i], FALSE)
    /\ UNCHANGED <<build, gameState, playerRole, nMoves, last>>
    /\ UNCHANGED syncVars

\* build 2, cell onClick with mv set: makeMove(mv)
MakeMove(c) ==
    /\ build = 2
    /\ nMoves < MoveBound
    /\ LET ms == MovesOf(c)
       IN \E i \in 1..Len(CELLS) :
             \E m \in MoveMapAt(ms, selected[c], CELLS[i]) :
                /\ gameState' = makeMove(gameState, selected[c], playerRole[c], m)
                /\ last' = Applied(c, m)
                /\ click' = Clicked(c, CELLS[i], TRUE)
    /\ selected' = [selected EXCEPT ![c] = <<>>]
    /\ nMoves' = nMoves + 1
    /\ UNCHANGED <<build, playerRole>>
    /\ UNCHANGED syncVars

\* build 2: function handleCellClick(cell), the selection it sets
handleCellClick(gs, sel, role, cell) ==
    IF gs.winner # "none" \/ role = "none" \/ (gs.gameStarted /\ gs.currentTurn # role)
    THEN sel
    ELSE IF Includes(sel, cell) THEN FilterOut(sel, cell)
    ELSE IF Get(gs.board, cell) = role
    THEN IF Len(sel) = 0 THEN <<cell>>
         ELSE IF Len(sel) < 3
         THEN LET sortedPlus == SortAsc(Append(sel, cell))
              IN IF isArithmeticSequence(sortedPlus) THEN sortedPlus ELSE sel
         ELSE <<cell>>
    ELSE sel

\* build 2, cell onClick with no mv: handleCellClick(cell)
HandleCellClick(c) ==
    /\ build = 2
    /\ nMoves < MoveBound
    /\ LET ms == MovesOf(c)
       IN \E i \in 1..Len(CELLS) :
             /\ MoveMapAt(ms, selected[c], CELLS[i]) = {}
             /\ selected' = [selected EXCEPT ![c] =
                   handleCellClick(gameState, selected[c], playerRole[c], CELLS[i])]
             /\ click' = Clicked(c, CELLS[i], FALSE)
    /\ UNCHANGED <<build, gameState, playerRole, nMoves, last>>
    /\ UNCHANGED syncVars

\* build 2, the Clear Selection button: setSelected([])
ClearSelection(c) ==
    /\ build = 2
    /\ nMoves < MoveBound
    /\ selected' = [selected EXCEPT ![c] = <<>>]
    /\ click' = Cleared(c)
    /\ UNCHANGED <<build, gameState, playerRole, nMoves, last>>
    /\ UNCHANGED syncVars

Next ==
    \E c \in Clients :
        \/ ExecuteMove(c)
        \/ CellClick(c)
        \/ MakeMove(c)
        \/ HandleCellClick(c)
        \/ ClearSelection(c)

Spec == Init /\ [][Next]_vars

\* the same handlers, started with the click history switched on
SpecClick == InitClick /\ [][Next]_vars

-----------------------------------------------------------------------------
(* Play over the store *)

\* the stored record of the start position
StartState(turn) ==
    [board |-> BoardFrom(StartWhite, StartBlack), currentTurn |-> turn,
     players |-> [black |-> TRUE, white |-> TRUE], gameStarted |-> TRUE,
     scores |-> StartScores, winner |-> "none"]

\* both clients have joined and polled the start position
InitSync ==
    /\ build \in {1, 2}
    /\ \E turn \in Colours : store = StartState(turn)
    /\ local = [c \in Clients |-> store]
    /\ playerRole = [c \in Clients |-> IF c = "c1" THEN "black" ELSE "white"]
    /\ selected = [c \in Clients |-> <<>>]
    /\ nMoves = 0
    /\ puts = Idle
    /\ polls = Idle
    /\ reads = Idle
    /\ writes = [c \in Clients |-> 0]
    /\ loading = [c \in Clients |-> FALSE]
    /\ gameState = store
    /\ last = NoMove
    /\ click = ClickOff

\* the cells the clients click on
SyncCells == {CELLS[i] : i \in 1..MaxSyncCell}

\* the moves a client's render computes from its own copy
MovesSeen(c) ==
    IF build = 1 THEN moves(local[c], selected[c], playerRole[c])
    ELSE getPossibleMoves(local[c], selected[c], playerRole[c])

\* a PUT request: the record it carries, whether the store has taken it, what sent
\* it, and the snapshot the record was computed from
PutRequest(next, kind, base) ==
    [next |-> next, landed |-> FALSE, kind |-> kind, base |-> base]

\* the board is on the screen: build 1 covers it with the join overlay while the
\* client has no role (line 201), build 2 shows the lobby until gameStarted (line 480)
BoardShown(c) ==
    IF build = 1 THEN playerRole[c] # "none" ELSE local[c].gameStarted

\* cell onClick with mv set: executeMove(mv) / makeMove(mv) up to its first await:
\* the record is computed from the client's copy and the PUT is sent
SendMoveOn(c, cells, bound) ==
    /\ BoardShown(c)
    /\ nMoves < bound
    /\ LET ms == MovesSeen(c)
       IN \E cell \in cells :
             \E m \in MoveMapAt(ms, selected[c], cell) :
                puts' = [puts EXCEPT ![c] = Append(@, PutRequest(
                            IF build = 1
                            THEN executeMove(local[c], selected[c], playerRole[c], m)
                            ELSE makeMove(local[c], selected[c], playerRole[c], m),
                            "move", local[c]))]
    /\ nMoves' = nMoves + 1
    /\ UNCHANGED <<build, playerRole, selected, store, local, polls, reads, writes,
                   loading>>
    /\ UNCHANGED playVars

SendMove(c) == SendMoveOn(c, SyncCells, MaxSyncMoves)

\* cell onClick with no mv: the selection branch of line 188 / handleCellClick
SelectCellOn(c, cells) ==
    /\ BoardShown(c)
    /\ LET ms == MovesSeen(c)
       IN \E cell \in cells :
             /\ MoveMapAt(ms, selected[c], cell) = {}
             /\ selected' = [selected EXCEPT ![c] =
                   IF build = 1
                   THEN onClick(local[c], selected[c], playerRole[c], cell)
                   ELSE handleCellClick(local[c], selected[c], playerRole[c], cell)]
    /\ UNCHANGED <<build, playerRole, nMoves>>
    /\ UNCHANGED syncVars
    /\ UNCHANGED playVars

SelectCell(c) == SelectCellOn(c, SyncCells)

\* build 2, the Clear Selection button
ClearSelected(c) ==
    /\ build = 2
    /\ BoardShown(c)
    /\ selected' = [selected EXCEPT ![c] = <<>>]
    /\ UNCHANGED <<build, playerRole, nMoves>>
    /\ UNCHANGED syncVars
    /\ UNCHANGED playVars

\* the turn passes to client d when the stored currentTurn becomes its colour
TurnPasses(d, next) ==
    next.currentTurn = playerRole[d] /\ store.currentTurn # playerRole[d]

\* the store takes the oldest PUT of client c it has not taken yet
PutLands(c) ==
    /\ \E k \in 1..Len(puts[c]) :
          /\ ~puts[c][k].landed
          /\ \A j \in 1..(k-1) : puts[c][j].landed
          /\ store' = puts[c][k].next
          /\ puts' = [puts EXCEPT ![c][k].landed = TRUE]
          /\ writes' = IF puts[c][k].kind # "move" THEN writes
                       ELSE [d \in Clients |->
                               IF d = c THEN writes[c] + 1
                               ELSE IF TurnPasses(d, puts[c][k].next) THEN 0
                               ELSE writes[d]]
    /\ UNCHANGED <<build, playerRole, selected, nMoves, local, polls, reads, loading>>
    /\ UNCHANGED playVars

\* PutDone made to leave the selection as it is
PutDoneKeepsSelection(c) ==
    /\ puts[c] # <<>>
    /\ Head(puts[c]).landed
    /\ puts' = [puts EXCEPT ![c] = Tail(@)]
    /\ local' = IF build = 1 THEN [local EXCEPT ![c] = Head(puts[c]).next] ELSE local
    /\ polls' = IF build = 2 THEN [polls EXCEPT ![c] = Append(@, store)] ELSE polls
    /\ loading' = IF build = 1 /\ Head(puts[c]).kind = "join"
                  THEN [loading EXCEPT ![c] = FALSE] ELSE loading
    /\ UNCHANGED <<build, playerRole, selected, nMoves, store, reads, writes>>
    /\ UNCHANGED playVars

\* the response of the oldest PUT of client c arrives: the await ends.
\* build 1 (updateFirebase, executeMove): setGameState(next); setSelected([]);
\*          (handleJoin): setGameState(next); setLoading(false).
\* build 2 (makeMove, startGame): setSelected([]); loadGame(gameId) sends a GET.
PutDone(c) ==
    /\ puts[c] # <<>>
    /\ Head(puts[c]).landed
    /\ puts' = [puts EXCEPT ![c] = Tail(@)]
    /\ local' = IF build = 1 THEN [local EXCEPT ![c] = Head(puts[c]).next] ELSE local
    /\ polls' = IF build = 2 THEN [polls EXCEPT ![c] = Append(@, store)] ELSE polls
    /\ selected' = IF Head(puts[c]).kind = "move" THEN [selected EXCEPT ![c] = <<>>]
                   ELSE selected
    /\ loading' = IF build = 1 /\ Head(puts[c]).kind = "join"
                  THEN [loading EXCEPT ![c] = FALSE] ELSE loading
    /\ UNCHANGED <<build, playerRole, nMoves, store, reads, writes>>
    /\ UNCHANGED playVars

\* the interval poll sends a GET and the store answers it.
\* build 1 polls from the start; build 2 only once gameStarted is set (line 293)
Poll(c) ==
    /\ build # 2 \/ local[c].gameStarted
    /\ Len(polls[c]) < MaxPollsInFlight
    /\ polls' = [polls EXCEPT ![c] = Append(@, store)]
    /\ UNCHANGED <<build, playerRole, selected, nMoves, store, local, puts, reads, writes,
                   loading>>
    /\ UNCHANGED playVars

\* a GET response arrives: fetchGame / loadGame set the client's copy; in build 2
\* the loadGame that startGame awaits after its PUT is followed by setLoading(false)
PollDone(c) ==
    /\ polls[c] # <<>>
    /\ local' = [local EXCEPT ![c] = Head(polls[c])]
    /\ polls' = [polls EXCEPT ![c] = Tail(@)]
    /\ loading' = IF build = 2 /\ puts[c] = <<>> /\ reads[c] = <<>>
                  THEN [loading EXCEPT ![c] = FALSE] ELSE loading
    /\ UNCHANGED <<build, playerRole, selected, nMoves, store, puts, reads, writes>>
    /\ UNCHANGED playVars

NextSync ==
    \E c \in Clients :
        \/ SendMove(c)
        \/ SelectCell(c)
        \/ ClearSelected(c)
        \/ PutLands(c)
        \/ PutDone(c)
        \/ Poll(c)
        \/ PollDone(c)

SpecSync == InitSync /\ [][NextSync]_vars

-----------------------------------------------------------------------------
(* The lobby *)

\* nothing is stored yet, no client has a role; build 1 shows the join overlay
\* once its first fetchGame has set gameState to the default record
InitJoin ==
    /\ build \in {1, 2}
    /\ store = DefaultState
    /\ local = [c \in Clients |-> DefaultState]
    /\ playerRole = [c \in Clients |-> "none"]
    /\ selected = [c \in Clients |-> <<>>]
    /\ nMoves = 0
    /\ puts = Idle
    /\ polls = Idle
    /\ reads = Idle
    /\ writes = [c \in Clients |-> 0]
    /\ loading = [c \in Clients |-> FALSE]
    /\ gameState = DefaultState
    /\ last = NoMove
    /\ click = ClickOff

\* the role both join handlers pick: the client's own, else black, else white
PickRole(players, role) ==
    IF role # "none" THEN role
    ELSE IF ~players["black"] THEN "black"
    ELSE IF ~players["white"] THEN "white"
    ELSE "full"

\* the board both join handlers write: the initial position if none is there
JoinBoard(board) ==
    IF DOMAIN board = {} THEN BoardFrom(WHITE_INITIAL, BLACK_INITIAL) ELSE board

\* build 1: nextState of handleJoin
handleJoin(gs, role) ==
    [gs EXCEPT !.board = JoinBoard(gs.board),
               !.players = [gs.players EXCEPT ![role] = TRUE],
               !.gameStarted = /\ (gs.players["black"] \/ role = "black")
                               /\ (gs.players["white"] \/ role = "white")]

\* build 2: gameData of startGame
startGame(currentData, role) ==
    LET newPlayers == [currentData.players EXCEPT ![role] = TRUE]
    IN [board |-> JoinBoard(currentData.board),
        currentTurn |-> currentData.currentTurn,
        players |-> newPlayers,
        gameStarted |-> newPlayers["white"] /\ newPlayers["black"],
        scores |-> currentData.scores,
        winner |-> "none"]

\* build 1, JOIN GAME: setLoading(true); the role is picked from the client's own
\* copy of players, and the PUT is sent; with both slots taken: alert("Full")
HandleJoin(c) ==
    /\ build = 1
    /\ playerRole[c] = "none"
    /\ loading' = [loading EXCEPT ![c] = TRUE]
    /\ LET role == PickRole(local[c].players, playerRole[c])
       IN IF role = "full" THEN UNCHANGED <<playerRole, puts>>
          ELSE /\ playerRole' = [playerRole EXCEPT ![c] = role]
               /\ puts' = [puts EXCEPT ![c] =
                             Append(@, PutRequest(handleJoin(local[c], role), "join",
                                                  local[c]))]
    /\ UNCHANGED <<build, selected, nMoves, store, local, polls, reads, writes>>
    /\ UNCHANGED playVars

\* build 2, JOIN AS ...: startGame sends its GET and the store answers it
StartGame(c) ==
    /\ build = 2
    /\ ~local[c].gameStarted
    \* the button is disabled while loading: until the loadGame that ends an
    \* earlier startGame has answered
    /\ ~loading[c]
    /\ reads[c] = <<>> /\ puts[c] = <<>> /\ polls[c] = <<>>
    /\ loading' = [loading EXCEPT ![c] = TRUE]
    /\ reads' = [reads EXCEPT ![c] = <<store>>]
    /\ UNCHANGED <<build, playerRole, selected, nMoves, store, local, puts, polls, writes>>
    /\ UNCHANGED playVars

\* build 2: the GET response arrives: the role is picked from it and the PUT is
\* sent; with both slots taken: alert('Game is full!'); setLoading(false)
StartGameWrite(c) ==
    /\ build = 2
    /\ reads[c] # <<>>
    /\ reads' = [reads EXCEPT ![c] = <<>>]
    /\ LET role == PickRole(reads[c][1].players, playerRole[c])
       IN IF role = "full"
          THEN /\ loading' = [loading EXCEPT ![c] = FALSE]
               /\ UNCHANGED <<playerRole, puts>>
          ELSE /\ playerRole' = [playerRole EXCEPT ![c] = role]
               /\ puts' = [puts EXCEPT ![c] =
                             Append(@, PutRequest(startGame(reads[c][1], role), "join",
                                                  reads[c][1]))]
               /\ UNCHANGED loading
    /\ UNCHANGED <<build, selected, nMoves, store, local, polls, writes>>
    /\ UNCHANGED playVars

NextJoin ==
    \E c \in Clients :
        \/ HandleJoin(c)
        \/ StartGame(c)
        \/ StartGameWrite(c)
        \/ PutLands(c)
        \/ PutDone(c)
        \/ Poll(c)
        \/ PollDone(c)

SpecJoin == InitJoin /\ [][NextJoin]_vars

-----------------------------------------------------------------------------
(* The lobby of a game that is full *)

\* the record a join of role writes over rec
JoinedBy(rec, role) ==
    IF build = 1 THEN handleJoin(rec, role) ELSE startGame(rec, role)

\* two players have joined from elsewhere and both slots are stored as taken; the
\* clients are further visitors of the link, without a role, whose copies were
\* fetched before the first join, between the two joins, or after them
InitFull ==
    /\ build \in {1, 2}
    /\ store = JoinedBy(JoinedBy(DefaultState, "black"), "white")
    /\ local \in [Clients -> {DefaultState, JoinedBy(DefaultState, "black"), store}]
    /\ playerRole = [c \in Clients |-> "none"]
    /\ selected = [c \in Clients |-> <<>>]
    /\ nMoves = 0
    /\ puts = Idle
    /\ polls = Idle
    /\ reads = Idle
    /\ writes = [c \in Clients |-> 0]
    /\ loading = [c \in Clients |-> FALSE]
    /\ gameState = DefaultState
    /\ last = NoMove
    /\ click = ClickOff

SpecFull == InitFull /\ [][NextJoin]_vars

-----------------------------------------------------------------------------
(* The rematch: src/unnamed/part_000 lines 728-1015 *)

\* handleRematch made to give black the first turn whoever has won
handleRematchBlackStarts(prev) ==
    [prev EXCEPT !.board = BoardFrom(WHITE_INITIAL, BLACK_INITIAL),
                 !.scores = [white |-> 0, black |-> 0],
                 !.winner = "none",
                 !.currentTurn = "black"]

\* the updateFn of handleRematch: the record it makes of prev
handleRematch(prev) ==
    [prev EXCEPT !.board = BoardFrom(WHITE_INITIAL, BLACK_INITIAL),
                 !.scores = [white |-> 0, black |-> 0],
                 !.winner = "none",
                 !.currentTurn = IF prev.winner = "black" THEN "white" ELSE "black"]

\* the players record of this variant holds the name each slot was joined with
NamedPlayers == [black |-> "c1", white |-> "c2"]

\* a finished game: from the start position black has pushed 15 off the board with
\* 17,16 and has won with 6
FinishedBlack ==
    [executeMove(StartState("black"), <<16, 17>>, "black",
                 PushMove(-1, <<15, 16>>, <<15>>, 16))
        EXCEPT !.players = NamedPlayers]

\* the same game with the colours exchanged: white has won
FinishedWhite ==
    [FinishedBlack EXCEPT
        !.board = [x \in DOMAIN FinishedBlack.board |-> Opponent(FinishedBlack.board[x])],
        !.scores = [white |-> FinishedBlack.scores["black"],
                    black |-> FinishedBlack.scores["white"]],
        !.winner = "white",
        !.currentTurn = "black"]

\* what the loser of rec can hold selected: nothing, or one piece it clicked before
\* the winning move
LoserSelections(rec) ==
    {<<>>} \cup {<<x>> : x \in {y \in SyncCells : Get(rec.board, y) = Opponent(rec.winner)}}

\* both clients have polled the last position and see the win modal
InitRematch ==
    /\ build = 3
    /\ store \in {FinishedBlack, FinishedWhite}
    /\ local = [c \in Clients |-> store]
    /\ playerRole = [c \in Clients |-> IF c = "c1" THEN "black" ELSE "white"]
    /\ \E sel \in LoserSelections(store) :
          selected = [c \in Clients |-> IF playerRole[c] = store.winner THEN <<>> ELSE sel]
    /\ nMoves = 0
    /\ puts = Idle
    /\ polls = Idle
    /\ reads = Idle
    /\ writes = [c \in Clients |-> 0]
    /\ loading = [c \in Clients |-> FALSE]
    /\ gameState = DefaultState
    /\ last = NoMove
    /\ click = ClickOff

\* PLAY AGAIN, shown while the client's copy has a winner: the client takes the other
\* role; updateFirebase makes the new record of the client's copy, sets the copy to
\* it and sends the PUT without awaiting it; setSelected([])
HandleRematch(c) ==
    /\ build = 3
    /\ local[c].winner # "none"
    /\ nMoves < MaxRematches
    /\ playerRole' = [playerRole EXCEPT ![c] = IF @ = "black" THEN "white" ELSE "black"]
    /\ local' = [local EXCEPT ![c] = handleRematch(local[c])]
    /\ puts' = [puts EXCEPT ![c] =
                  Append(@, PutRequest(handleRematch(local[c]), "rematch", local[c]))]
    /\ selected' = [selected EXCEPT ![c] = <<>>]
    /\ nMoves' = nMoves + 1
    /\ UNCHANGED <<build, store, polls, reads, writes, loading>>
    /\ UNCHANGED playVars

NextRematch ==
    \E c \in Clients :
        \/ HandleRematch(c)
        \/ PutLands(c)
        \/ PutDone(c)
        \/ Poll(c)
        \/ PollDone(c)

SpecRematch == InitRematch /\ [][NextRematch]_vars

-----------------------------------------------------------------------------
(* A whole game: the lobby, then play from the initial position *)

\* the cells the clients click on: a front piece of black, which moves first, in
\* the initial position (73) and the empty cell beside it in its row (72)
GameCells == {72, 73}

PlayMove(c) == SendMoveOn(c, GameCells, MaxGameMoves)

PlaySelect(c) == SelectCellOn(c, GameCells)

NextGame ==
    \E c \in Clients :
        \/ HandleJoin(c)
        \/ StartGame(c)
        \/ StartGameWrite(c)
        \/ PlayMove(c)
        \/ PlaySelect(c)
        \/ ClearSelected(c)
        \/ PutLands(c)
        \/ PutDone(c)
        \/ Poll(c)
        \/ PollDone(c)

SpecGame == InitJoin /\ [][NextGame]_vars

\* the interval polls are timers and the store answers every request: they are
\* taken fairly; clicks are not
SpecGameFair ==
    /\ InitJoin
    /\ [][NextGame]_vars
    /\ \A c \in Clients :
          /\ WF_vars(Poll(c))
          /\ WF_vars(PollDone(c))
          /\ WF_vars(PutLands(c))
          /\ WF_vars(PutDone(c))
          /\ WF_vars(StartGameWrite(c))

-----------------------------------------------------------------------------
(* What the claims speak of *)

\* a move has been applied; last holds it and the snapshot it was applied to
Moved == last.type # "none"

Mover == last.role

Opp == Opponent(last.role)

\* the cell immediately past the pushed run of the last move
FarCell == last.pushed[Len(last.pushed)] + last.dir

\* the number of pieces of a colour on a board
CountOf(b, colour) == Cardinality({c \in DOMAIN b : b[c] = colour})

\* the pushed cells of the last move whose own destination is off the board
Ejected == {i \in 1..Len(last.pushed) : last.pushed[i] + last.dir \notin CELL_SET}

\* the length of the run of pieces of colour from cell on in direction dir
RECURSIVE RunLength(_, _, _, _)
RunLength(b, cell, dir, colour) ==
    IF cell \in CELL_SET /\ Get(b, cell) = colour
    THEN 1 + RunLength(b, cell + dir, dir, colour)
    ELSE 0

\* the leading cell of a selection in direction dir
FrontOf(sel, dir) ==
    IF dir > 0 THEN CHOOSE x \in Elems(sel) : \A y \in Elems(sel) : y <= x
    ELSE CHOOSE x \in Elems(sel) : \A y \in Elems(sel) : x <= y

Abs(n) == IF n < 0 THEN -n ELSE n

\* the cells of sel are a contiguous line of step d
IsLine(sel, d) ==
    \A x \in Elems(sel) :
        x = FrontOf(sel, -1) \/ (x - d) \in Elems(sel)

\* the push moves and the simple moves among ms
PushesOf(ms) == {ms[i] : i \in {j \in 1..Len(ms) : ms[j].type = "push"}}

SimplesOf(ms) == {ms[i] : i \in {j \in 1..Len(ms) : ms[j].type = "move"}}

-----------------------------------------------------------------------------
(* C1: applying an enumerated push whose far cell is a valid empty cell    *)
(* leaves both scores unchanged, puts an opponent piece on every cell      *)
(* pushedCell + dir, and keeps the number of opponent pieces on the board. *)
C1_PushOnBoardRelocates ==
    (last.type = "push" /\ FarCell \in CELL_SET /\ ~Has(last.pre.board, FarCell)) =>
        /\ gameState.scores = last.pre.scores
        /\ \A i \in 1..Len(last.pushed) :
              Get(gameState.board, last.pushed[i] + last.dir) = Opp
        /\ CountOf(gameState.board, Opp) = CountOf(last.pre.board, Opp)

C3_ScoredPerPiece ==
    last.type = "push" =>
        /\ Cardinality(Ejected) \in {0, 1}
        /\ gameState.scores[Mover] = last.pre.scores[Mover] + Cardinality(Ejected)
        /\ gameState.scores[Opp] = last.pre.scores[Opp]
        /\ \A i \in 1..Len(last.pushed) :
              i \notin Ejected => Get(gameState.board, last.pushed[i] + last.dir) = Opp

(* C4: every push returned by enumeration has 1 <= pushed.length <         *)
(* selection.length; a single-piece selection yields no push; and a line   *)
(* selection facing, along its axis, an opponent run at least as long as   *)
(* itself gets no move in that direction.                                  *)
C4_PushOutnumbering ==
    \A c \in Clients :
        LET ms == MovesOf(c)
            sel == selected[c]
            opp == Opponent(playerRole[c])
        IN /\ \A m \in PushesOf(ms) :
                 1 <= Len(m.pushed) /\ Len(m.pushed) < Len(sel) /\ Len(sel) \in {2, 3}
           /\ \A k \in 1..Len(Dirs) :
                 (/\ Len(sel) >= 2
                  /\ IsLine(sel, Abs(Dirs[k]))
                  /\ RunLength(gameState.board, FrontOf(sel, Dirs[k]) + Dirs[k],
                               Dirs[k], opp) >= Len(sel))
                 => \A i \in 1..Len(ms) : ms[i].dir # Dirs[k]

\* three selected pieces can push two
C4_Witness ==
    \E c \in Clients :
        \E m \in PushesOf(MovesOf(c)) : Len(m.pushed) = 2 /\ Len(selected[c]) = 3

(* C5: every push returned by enumeration is along the selection's own     *)
(* axis, its pushed cells are exactly the maximal run of opponent-occupied *)
(* valid cells from front + dir on, the cell past the run is off-board or  *)
(* empty, and pushed[0] is the only target cell outside the selection.     *)
C5_PushAlongAxis ==
    \A c \in Clients :
        LET sel == selected[c]
            opp == Opponent(playerRole[c])
            b == gameState.board
        IN \A m \in PushesOf(MovesOf(c)) :
              LET front == FrontOf(sel, m.dir)
                  n == Len(m.pushed)
                  past == front + (n + 1) * m.dir
              IN /\ Abs(m.dir) \in {1, 9, 10}
                 /\ IsLine(sel, Abs(m.dir))
                 /\ n = RunLength(b, front + m.dir, m.dir, opp)
                 /\ \A i \in 1..n :
                       /\ m.pushed[i] = front + i * m.dir
                       /\ m.pushed[i] \in CELL_SET
                       /\ Get(b, m.pushed[i]) = opp
                 /\ past \notin CELL_SET \/ ~Has(b, past)
                 /\ Elems(m.cells) \ Elems(sel) = {m.pushed[1]}

\* a push towards the edge, whose far cell is off-board, is enumerated
C5_Witness ==
    \E c \in Clients :
        \E m \in PushesOf(MovesOf(c)) :
            m.pushed[Len(m.pushed)] + m.dir \notin CELL_SET

(* C6: every target cell of every simple move returned by enumeration is a *)
(* valid cell that, on the board enumerated from, is empty or a member of  *)
(* the selection: never an opponent piece, never an unselected own piece.  *)
C6_SimpleTargetsFree ==
    \A c \in Clients :
        \A m \in SimplesOf(MovesOf(c)) :
            \A t \in Elems(m.cells) :
                /\ t \in CELL_SET
                /\ Get(gameState.board, t) = "none" \/ t \in Elems(selected[c])

\* a line slides along its own axis: a target cell is a selected cell
C6_Witness ==
    \E c \in Clients :
        \E m \in SimplesOf(MovesOf(c)) :
            Len(selected[c]) >= 2 /\ Elems(m.cells) \cap Elems(selected[c]) # {}

(* C7: enumeration returns at most one move per signed direction (at most  *)
(* 6 in all), none in a direction in which a translated selection cell is  *)
(* off-board, and every target cell of every returned move is a valid      *)
(* cell; with no legal direction the result is the empty list.             *)
C7_OneMovePerDirection ==
    \A c \in Clients :
        LET ms == MovesOf(c)
            sel == selected[c]
        IN /\ Len(ms) <= 6
           /\ \A i, j \in 1..Len(ms) : i # j => ms[i].dir # ms[j].dir
           /\ \A i \in 1..Len(ms) :
                 /\ ms[i].dir \in Elems(Dirs)
                 /\ Elems(ms[i].cells) = {x + ms[i].dir : x \in Elems(sel)}
                 /\ Elems(ms[i].cells) \subseteq CELL_SET
           /\ \A k \in 1..Len(Dirs) :
                 (\E x \in Elems(sel) : x + Dirs[k] \notin CELL_SET)
                 => \A i \in 1..Len(ms) : ms[i].dir # Dirs[k]

\* some moves are returned while another direction would take part of the
\* selection, and only part of it, off the board
C7_Witness ==
    \E c \in Clients :
        /\ Len(MovesOf(c)) >= 1
        /\ \E k \in 1..Len(Dirs) :
              /\ \E x \in Elems(selected[c]) : x + Dirs[k] \notin CELL_SET
              /\ \E x \in Elems(selected[c]) : x + Dirs[k] \in CELL_SET

(* C8: applying an enumerated move by player P yields a board on which     *)
(* every target cell holds P, every selection cell that is no target cell  *)
(* is empty, P has as many pieces as before, and every cell outside the    *)
(* selection, the targets, pushed and {c + dir : c in pushed} is as before.*)
C8_MoveFrame ==
    Moved =>
        LET touched == Elems(last.sel) \cup Elems(last.cells) \cup Elems(last.pushed)
                       \cup {x + last.dir : x \in Elems(last.pushed)}
        IN /\ \A t \in Elems(last.cells) : Get(gameState.board, t) = Mover
           /\ \A x \in Elems(last.sel) \ Elems(last.cells) : ~Has(gameState.board, x)
           /\ CountOf(gameState.board, Mover) = CountOf(last.pre.board, Mover)
           /\ \A x \in (DOMAIN gameState.board \cup DOMAIN last.pre.board) \ touched :
                 Get(gameState.board, x) = Get(last.pre.board, x)

(* C9: after every applied move winner is set iff some score is >= 6: it   *)
(* is white if white's score >= 6, else black if black's score >= 6, else  *)
(* none; and a winner first becomes set on the move that takes the mover's *)
(* score from 5 to 6.                                                      *)
C9_WinThreshold ==
    Moved =>
        /\ gameState.winner # "none" <=> \E col \in Colours : gameState.scores[col] >= 6
        /\ gameState.scores["white"] >= 6 => gameState.winner = "white"
        /\ (gameState.scores["white"] < 6 /\ gameState.scores["black"] >= 6)
              => gameState.winner = "black"
        /\ (last.pre.winner = "none" /\ gameState.winner # "none") =>
              /\ gameState.winner = Mover
              /\ last.pre.scores[Mover] = 5
              /\ gameState.scores[Mover] = 6

\* the last move set the winner
C9_Witness ==
    Moved /\ last.pre.winner = "none" /\ gameState.winner # "none"

(* C10: once winner is set no client enumerates or applies a further move, *)
(* so no move is applied to a snapshot whose winner is set, and no score   *)
(* exceeds 6.                                                              *)
C10_GameEnds ==
    /\ gameState.winner # "none" => \A c \in Clients : MovesOf(c) = <<>>
    /\ Moved => last.pre.winner = "none"
    /\ \A col \in Colours : gameState.scores[col] <= 6

(* C11: after every applied move currentTurn is the colour opposite to the *)
(* mover's, also after a push, an ejection or a winning move; the mover    *)
(* was the colour on turn, so in sequential play the movers alternate.     *)
C11_TurnAlternates ==
    Moved =>
        /\ gameState.currentTurn \in Colours
        /\ gameState.currentTurn # Mover
        /\ last.pre.currentTurn = Mover

\* the second move of the game ejected a piece and won
C11_Witness ==
    nMoves >= 2 /\ last.type = "push" /\ Ejected # {} /\ gameState.winner = Mover

\* the cells of s, sorted, are a line of constant step 1, 9 or 10
OnOneLine(s) ==
    LET t == SortAsc(s)
    IN \E d \in {1, 9, 10} : \A i \in 2..Len(t) : t[i] - t[i-1] = d

\* the last click added its cell to a non-empty selection
Extended ==
    /\ click.kind = "cell"
    /\ ~click.moved
    /\ click.pre # <<>>
    /\ ~Includes(click.pre, click.cell)
    /\ Elems(selected[click.client]) = Elems(click.pre) \cup {click.cell}

(* C12: whenever a click adds its cell to a non-empty selection, the       *)
(* resulting selection has 2 or 3 cells and its sorted coordinates have a  *)
(* constant step in {1, 9, 10}, in any click order.                        *)
C12_ExtensionKeepsLine ==
    Extended =>
        /\ Len(selected[click.client]) \in {2, 3}
        /\ OnOneLine(selected[click.client])

\* a third cell was added at the low end of a selection clicked from the middle
C12_Witness ==
    /\ Extended
    /\ Len(selected[click.client]) = 3
    /\ selected[click.client] # SortAsc(selected[click.client])

(* C13: in every reachable state every selection has at most 3 distinct    *)
(* cells and, with 2 or 3 cells, its sorted coordinates have a constant    *)
(* step in {1, 9, 10} (also after the middle cell of three is deselected). *)
C13_SelectionIsLine ==
    \A c \in Clients :
        /\ Len(selected[c]) <= 3
        /\ Cardinality(Elems(selected[c])) = Len(selected[c])
        /\ Len(selected[c]) >= 2 => OnOneLine(selected[c])

\* the last click was a selection attempt that the rules call invalid
InvalidAttempt ==
    /\ click.kind = "cell"
    /\ ~click.moved
    /\ ~Includes(click.pre, click.cell)
    /\ \/ Get(click.gs.board, click.cell) # playerRole[click.client]
       \/ Len(click.pre) = 3
       \/ ~OnOneLine(Append(click.pre, click.cell))

(* C14: an invalid selection attempt (cell not of the client's colour, not *)
(* in line with the selection, or selection already of 3 cells) leaves the *)
(* selection exactly as it was, and board, scores and turn unchanged.      *)
C14_InvalidAttemptDeclined ==
    InvalidAttempt =>
        /\ selected[click.client] = click.pre
        /\ gameState = click.gs

(* C15: a click on a cell that is in the selection removes exactly that    *)
(* cell from the selection, applies no move and leaves board, scores and   *)
(* turn unchanged.                                                         *)
C15_ClickOnSelectedDeselects ==
    (click.kind = "cell" /\ Includes(click.pre, click.cell)) =>
        /\ ~click.moved
        /\ selected[click.client] = FilterOut(click.pre, click.cell)
        /\ gameState = click.gs

\* the orders in which the cells of a selection can have been clicked
Orders(s) == {t \in [1..Len(s) -> Elems(s)] : Elems(t) = Elems(s)}

\* the moves client c's render computes from the selection sel
MovesWith(c, sel) ==
    IF build = 1 THEN moves(gameState, sel, playerRole[c])
    ELSE getPossibleMoves(gameState, sel, playerRole[c])

C17_BoardInvariant ==
    /\ DOMAIN gameState.board \subseteq CELL_SET
    /\ \A k \in DOMAIN gameState.board : gameState.board[k] \in Colours
    /\ Cardinality(CELL_SET) = 61
    /\ LET b0 == BoardFrom(WHITE_INITIAL, BLACK_INITIAL)
       IN /\ DOMAIN b0 \subseteq CELL_SET
          /\ Elems(WHITE_INITIAL) \cap Elems(BLACK_INITIAL) = {}
          /\ CountOf(b0, "white") = 14 /\ CountOf(b0, "black") = 14

\* a single piece was pushed over the edge: its destination is no cell
C17_Witness ==
    last.type = "push" /\ Len(last.pushed) = 1 /\ FarCell \notin CELL_SET

\* a move result of client c is taken by the store in this step
MoveLands(c) ==
    \E k \in 1..Len(puts[c]) :
        /\ puts[c][k].kind = "move"
        /\ ~puts[c][k].landed
        /\ puts'[c][k].landed
        /\ store' = puts[c][k].next

\* the handler that applied a move of client c ends in this step
MoveHandlerEnds(c) ==
    puts[c] # <<>> /\ Head(puts[c]).kind = "move" /\ puts'[c] = Tail(puts[c])

(* C18: the stored board, scores, turn and winner change only in a step    *)
(* in which the result of a chosen move is written; steps that select,     *)
(* extend, deselect, clear the selection or deliver a poll leave the       *)
(* stored record as it is; and when the handler that applied a move ends,  *)
(* the moving client's selection is empty.                                 *)
C18_OnlyMovesMutate ==
    [][/\ store' # store => \E c \in Clients : MoveLands(c)
       /\ (selected' # selected \/ polls' # polls \/ local' # local) => store' = store
       /\ \A c \in Clients : MoveHandlerEnds(c) => selected'[c] = <<>>]_vars

\* a client's move is stored and answered and its selection is empty, while
\* its own copy is not the stored record; the other client has polled the
\* move and selected a cell
C18_Witness ==
    \E c, d \in Clients :
        /\ c # d
        /\ writes[c] = 1
        /\ puts[c] = <<>>
        /\ selected[c] = <<>>
        /\ store # local[c]
        /\ local[d] = store
        /\ selected[d] # <<>>

(* C19: between two moments at which the turn passes to a client, that     *)
(* client writes at most one move result to the store.                     *)
C19_OneMovePerTurn ==
    \A c \in Clients : writes[c] <= 1

\* every client has a role and no request of a join is in flight
AllJoined ==
    \A c \in Clients :
        playerRole[c] \in Colours /\ puts[c] = <<>> /\ reads[c] = <<>>

(* C20: once both clients have joined, under every interleaving of their   *)
(* reads and writes, they have distinct roles and the stored players       *)
(* record has the black and the white slot filled.                         *)
C20_DistinctRoles ==
    AllJoined =>
        /\ playerRole["c1"] # playerRole["c2"]
        /\ store.players["black"] /\ store.players["white"]

\* the store takes the k-th PUT request of client c in this step
Lands(c, k) ==
    /\ k \in 1..Len(puts[c])
    /\ ~puts[c][k].landed
    /\ puts'[c] = [puts[c] EXCEPT ![k].landed = TRUE]

\* no move has been stored yet
NoMoveStored == \A c \in Clients : writes[c] = 0

\* the record a join writes when it initialises the game
JoinInitialises(rec) ==
    /\ DOMAIN rec.board = Elems(WHITE_INITIAL) \cup Elems(BLACK_INITIAL)
    /\ \A x \in Elems(WHITE_INITIAL) : rec.board[x] = "white"
    /\ \A x \in Elems(BLACK_INITIAL) : rec.board[x] = "black"
    /\ Len(WHITE_INITIAL) = 14 /\ CountOf(rec.board, "white") = 14
    /\ Len(BLACK_INITIAL) = 14 /\ CountOf(rec.board, "black") = 14
    /\ Elems(WHITE_INITIAL) \cap Elems(BLACK_INITIAL) = {}
    /\ DOMAIN rec.board \subseteq CELL_SET
    /\ rec.scores = [white |-> 0, black |-> 0]
    /\ rec.winner = "none"
    /\ rec.currentTurn = "black"

\* a join that finds a board leaves board, scores and turn as they are
JoinKeeps(old, rec) ==
    /\ rec.board = old.board
    /\ rec.scores = old.scores
    /\ rec.currentTurn = old.currentTurn

(* C21: the join that initialises the game stores 14 white pieces on       *)
(* WHITE_INITIAL and 14 black pieces on BLACK_INITIAL (disjoint sets of    *)
(* valid cells), scores 0-0, no winner and currentTurn black; a later join *)
(* does not reset a non-empty board, the scores or the turn; and the first *)
(* move that is stored is made by black.                                   *)
C21_BlackGoesFirst ==
    [][\A c \in Clients : \A k \in 1..Len(puts[c]) :
          Lands(c, k) =>
             /\ (puts[c][k].kind = "join" /\ DOMAIN store.board = {})
                    => JoinInitialises(store')
             /\ (puts[c][k].kind = "join" /\ DOMAIN store.board # {})
                    => JoinKeeps(store, store')
             /\ (puts[c][k].kind = "move" /\ NoMoveStored)
                    => playerRole[c] = "black"]_vars

\* client c has joined
Joined(c) == playerRole[c] \in Colours

\* client c's board, scores, currentTurn, winner and gameStarted are the stored ones
Observes(c) ==
    /\ local[c].board = store.board
    /\ local[c].scores = store.scores
    /\ local[c].currentTurn = store.currentTurn
    /\ local[c].winner = store.winner
    /\ local[c].gameStarted = store.gameStarted

\* no write is on its way to the store, and no join is waiting for its GET
Quiet == \A c \in Clients : puts[c] = <<>> /\ reads[c] = <<>>

(* C22: under fair polling, if from some moment on no further write is     *)
(* made to the store, then from some moment on every joined client's       *)
(* board, scores, currentTurn, winner and gameStarted equal the stored     *)
(* ones: after both players have joined, both clients (the one that joined *)
(* first too) see gameStarted = true and the opponent's latest move.       *)
C22_EventuallyConsistent ==
    <>[]Quiet => <>[](\A c \in Clients : Joined(c) => Observes(c))

\* the number of pieces of a colour in the initial position
PiecesAtStart == Len(WHITE_INITIAL)

\* the length of the r-th of the 9 rows of a hexagonal board of side 5
HexRowLength(r) == 9 - Abs(5 - r)

\* the cells of the rows
CellsOf(rows) == UNION {Elems(rows[r]) : r \in 1..Len(rows)}

\* rows are the 9 rows of the board: lengths 5,6,7,8,9,8,7,6,5, no cell twice,
\* and together exactly the valid cells
AreBoardRows(rows) ==
    /\ Len(rows) = 9
    /\ \A r \in 1..Len(rows) :
          /\ Len(rows[r]) = HexRowLength(r)
          /\ Cardinality(Elems(rows[r])) = Len(rows[r])
    /\ \A r, q \in 1..Len(rows) : r # q => Elems(rows[r]) \cap Elems(rows[q]) = {}
    /\ CellsOf(rows) = CELL_SET

\* the valid cells are 61 distinct numbers, listed row by row as displayed
CellsAreRows ==
    /\ Len(CELLS) = 61
    /\ Cardinality(CELL_SET) = 61
    /\ AreBoardRows(standardRows)
    /\ \A r \in 1..9 :
          Elems(standardRows[r]) = {x \in CELL_SET : x \div 10 = r}

(* C23: the valid-cell set has exactly 61 distinct members arranged in 9   *)
(* rows of lengths 5,6,7,8,9,8,7,6,5, and the rows displayed to either     *)
(* player enumerate exactly the same 61 cells.                             *)
C23_Topology ==
    /\ CellsAreRows
    /\ \A c \in Clients : AreBoardRows(displayRows(playerRole[c]))
    /\ click.kind = "cell" => click.cell \in CellsOf(displayRows(playerRole[click.client]))

\* white, who sees the rows turned round, has clicked two cells of the longest row
C23_Witness ==
    /\ click.kind = "cell"
    /\ playerRole[click.client] = "white"
    /\ displayRows("white") # standardRows
    /\ Len(selected[click.client]) = 2
    /\ Elems(selected[click.client]) \subseteq Elems(displayRows("white")[5])

\* the row of the display a cell is in, and its place in that row
RowIndex(x) == CHOOSE r \in 1..Len(standardRows) : x \in Elems(standardRows[r])

PlaceInRow(x) ==
    CHOOSE i \in 1..Len(standardRows[RowIndex(x)]) : standardRows[RowIndex(x)][i] = x

\* twice the horizontal position of a cell's hexagon, the rows being centred
TwiceX(x) == 2 * PlaceInRow(x) - Len(standardRows[RowIndex(x)])

\* two hexagons of the board touch: neighbours in a row, or in neighbouring rows
\* half a hexagon apart
AdjacentHex(a, b) ==
    \/ RowIndex(a) = RowIndex(b) /\ Abs(PlaceInRow(a) - PlaceInRow(b)) = 1
    \/ Abs(RowIndex(a) - RowIndex(b)) = 1 /\ Abs(TwiceX(a) - TwiceX(b)) = 1

\* the axis of the board two touching hexagons lie on
AxisOf(a, b) ==
    IF RowIndex(a) = RowIndex(b) THEN "row"
    ELSE IF (RowIndex(b) - RowIndex(a)) * (TwiceX(b) - TwiceX(a)) > 0 THEN "down-right"
    ELSE "down-left"

\* the axes of the steps of offset d between valid cells
AxesOf(d) == {AxisOf(a, a + d) : a \in {x \in CELL_SET : x + d \in CELL_SET}}

\* the offsets are the adjacency of the hexagons, one axis per magnitude
OffsetsAreAdjacency ==
    /\ \A a, b \in CELL_SET : (b - a) \in Elems(Dirs) <=> AdjacentHex(a, b)
    /\ \A d \in Elems(Dirs) : -d \in Elems(Dirs)
    /\ Cardinality({Abs(d) : d \in Elems(Dirs)}) = 3
    /\ \A d \in Elems(Dirs) : Cardinality(AxesOf(d)) = 1
    /\ \A d, e \in Elems(Dirs) : AxesOf(d) = AxesOf(e) <=> Abs(d) = Abs(e)

(* C24: two valid cells differ by one of the offsets +-1, +-9, +-10 if and *)
(* only if they are adjacent hexagons of the side-5 board (neighbours in a *)
(* row, or in neighbouring rows along one of the two diagonals), whatever  *)
(* the row lengths: no offset links non-adjacent cells, the relation is    *)
(* symmetric, each magnitude is one axis, and every applied move takes     *)
(* each of its pieces to an adjacent hexagon.                              *)
C24_OffsetsAreAxes ==
    /\ OffsetsAreAdjacency
    /\ Moved => \A i \in 1..Len(last.sel) : AdjacentHex(last.sel[i], last.cells[i])

\* three pieces of a column have been moved sideways along a diagonal, between
\* rows of different lengths
C24_Witness ==
    /\ Moved
    /\ Len(last.sel) = 3
    /\ Abs(last.dir) = 9
    /\ last.sel[2] - last.sel[1] = 10

\* the corner cells, the cells of the rim and the cells inside it
CornerCells ==
    UNION {{standardRows[r][1], standardRows[r][Len(standardRows[r])]} : r \in {1, 5, 9}}

RimCells ==
    Elems(standardRows[1]) \cup Elems(standardRows[9]) \cup
    {standardRows[r][1] : r \in 1..9} \cup
    {standardRows[r][Len(standardRows[r])] : r \in 1..9}

InteriorCells == CELL_SET \ RimCells

NeighborCount(x) == Cardinality(Elems(getNeighbors(x)))

(* C25, as claimed: every cell has between 2 and 6 neighbors: the 6 corner *)
(* cells have 2, the other edge cells 3 to 4, interior cells 6.            *)
C25_CornersHaveTwo ==
    /\ Cardinality(CornerCells) = 6
    /\ \A c \in Clients : \A x \in CellsOf(displayRows(playerRole[c])) :
          /\ NeighborCount(x) \in 2..6
          /\ x \in CornerCells => NeighborCount(x) = 2
          /\ x \in RimCells \ CornerCells => NeighborCount(x) \in {3, 4}
          /\ x \in InteriorCells => NeighborCount(x) = 6

\* the board has 6 corners, 18 other cells on the rim and 37 inside it, and
\* getNeighbors returns adjacent hexagons, each once
NeighborCounts ==
    /\ Cardinality(CornerCells) = 6
    /\ Cardinality(RimCells) = 24
    /\ Cardinality(InteriorCells) = 37
    /\ \A x \in CELL_SET :
          /\ Len(getNeighbors(x)) = NeighborCount(x)
          /\ \A y \in Elems(getNeighbors(x)) : AdjacentHex(x, y)

(* C25, amended: every cell has between 3 and 6 neighbors: the 6 corner    *)
(* cells have 3, the other 18 edge cells have 4 and the 37 interior cells  *)
(* have 6; a single selected piece moves to neighbors only.                *)
C25_NeighborCounts ==
    /\ NeighborCounts
    /\ \A c \in Clients : \A x \in CellsOf(displayRows(playerRole[c])) :
          /\ NeighborCount(x) \in 3..6
          /\ x \in CornerCells => NeighborCount(x) = 3
          /\ x \in RimCells \ CornerCells => NeighborCount(x) = 4
          /\ x \in InteriorCells => NeighborCount(x) = 6
    /\ \A c \in Clients :
          Len(selected[c]) = 1 =>
             \A i \in 1..Len(MovesOf(c)) :
                MovesOf(c)[i].cells[1] \in Elems(getNeighbors(selected[c][1]))

\* a piece on a corner is selected alone and has as many moves as free neighbors
C25_Witness ==
    \E c \in Clients :
        /\ Len(selected[c]) = 1
        /\ selected[c][1] \in CornerCells
        /\ Len(MovesOf(c)) = 2
        /\ Cardinality({y \in Elems(getNeighbors(selected[c][1])) :
                           ~Has(gameState.board, y)}) = 2

\* the cells of s, sorted, have one constant step, drawn from steps
SameStepIn(s, steps) ==
    LET t == SortAsc(s)
    IN \E d \in steps : \A i \in 2..Len(t) : t[i] - t[i-1] = d

\* the last click asked to add a piece of the client's colour to its selection
\* of 1 or 2 cells, on its turn
ExtensionAsked ==
    /\ click.kind = "cell"
    /\ ~click.moved
    /\ Len(click.pre) \in {1, 2}
    /\ ~Includes(click.pre, click.cell)
    /\ Get(click.gs.board, click.cell) = playerRole[click.client]
    /\ click.gs.currentTurn = playerRole[click.client]
    /\ click.gs.winner = "none"

\* the click added its cell: the selection of 2 or 3 cells was accepted
ExtensionAccepted ==
    Elems(selected[click.client]) = Elems(click.pre) \cup {click.cell}

\* the magnitudes of the directions moves are enumerated in
DirMagnitudes == {Abs(Dirs[k]) : k \in 1..Len(Dirs)}

C27_PieceConservation ==
    \A col \in Colours :
        CountOf(gameState.board, col) + gameState.scores[Opponent(col)] = PiecesAtStart

(* C28: for every enumerated push move, pushes of two opponent pieces      *)
(* included, the single-pass resolution of executeMove and the two-pass    *)
(* resolution of makeMove produce the same board and the same scores.      *)
C28_PushPassesAgree ==
    \A c \in Clients :
        \A m \in PushesOf(MovesOf(c)) :
            LET one == executeMove(gameState, selected[c], playerRole[c], m)
                two == makeMove(gameState, selected[c], playerRole[c], m)
                bs0 == [b |-> gameState.board, s |-> gameState.scores]
            IN /\ one.board = two.board
               /\ one.scores = two.scores
               /\ PushSinglePass(bs0, m.pushed, m.dir, playerRole[c],
                                 Opponent(playerRole[c]))
                  = PushTwoPass(bs0, m.pushed, m.dir, playerRole[c],
                                Opponent(playerRole[c]))

(* C29: under every interleaving of the clients' polls, joins and move     *)
(* writes, every record that changes the store was computed from the       *)
(* record that is in the store when it is written: no write puts back an   *)
(* older state, so a stored move is never lost or reverted.                *)
C29_WritesFromStored ==
    [][\A c \in Clients : \A k \in 1..Len(puts[c]) :
          (Lands(c, k) /\ store' # store) => puts[c][k].base = store]_vars

(* C30: from one state of the store to the next, under every interleaving  *)
(* of the two clients, no player's score decreases and no colour's number  *)
(* of pieces on the board increases.                                       *)
C30_StoreMonotone ==
    [][\A col \in Colours :
          /\ store'.scores[col] >= store.scores[col]
          /\ CountOf(store'.board, col) <= CountOf(store.board, col)]_vars

\* every cell client c holds selected has a piece of c's colour on c's own board
SelectionIsOwn(c) ==
    \A x \in Elems(selected[c]) : Get(local[c].board, x) = playerRole[c]

(* C31: in every reachable state every cell a client holds selected is     *)
(* occupied, on that client's current copy of the board, by its own        *)
(* colour, also after a poll has replaced the copy while the selection was *)
(* held; so the selection cells a move clears hold the mover's own pieces. *)
C31_SelectionIsOwn ==
    \A c \in Clients : SelectionIsOwn(c)

\* client c has no role, or its own copy says that it is not its turn
NotOnTurn(c) ==
    playerRole[c] = "none" \/ local[c].currentTurn # playerRole[c]

(* C32: a client applies a move only in a state in which the currentTurn   *)
(* of its own copy is its role: a client without a role, or whose copy     *)
(* says it is the opponent's turn, has no enumerated moves, and every move *)
(* result it has sent was computed from a copy whose currentTurn was its   *)
(* role, so no click of it changes the board, the scores or the turn.      *)
C32_MovesOnlyOnTurn ==
    \A c \in Clients :
        /\ NotOnTurn(c) => MovesSeen(c) = <<>>
        /\ \A k \in 1..Len(puts[c]) :
              puts[c][k].kind = "move" => puts[c][k].base.currentTurn = playerRole[c]

\* both player slots of a record are filled
BothJoined(rec) == rec.players["black"] /\ rec.players["white"]

(* C33: the record a join writes has gameStarted true exactly when both    *)
(* the black and the white slot are filled, and every move is applied to a *)
(* copy whose gameStarted is true: a player who has joined alone cannot    *)
(* change the board, the scores or the turn before the opponent has joined.*)
C33_NoMoveBeforeStart ==
    \A c \in Clients : \A k \in 1..Len(puts[c]) :
        /\ puts[c][k].kind = "join" =>
              (puts[c][k].next.gameStarted <=> BothJoined(puts[c][k].next))
        /\ puts[c][k].kind = "move" =>
              puts[c][k].base.gameStarted /\ BothJoined(puts[c][k].base)

\* a step of the join handler of client c, and the step in which that handler ends
JoinStep(c) == HandleJoin(c) \/ StartGame(c) \/ StartGameWrite(c)

JoinStepEnds(c) == HandleJoin(c) \/ StartGameWrite(c)

\* both slots are taken, in the store and in the copy handleJoin reads them from
\* (startGame reads them from the store)
SlotsTaken(c) == BothJoined(store) /\ (build = 1 => BothJoined(local[c]))

(* C34: a join attempt of a client without a role, made when both the      *)
(* black and the white slot are taken, is rejected as full: the client     *)
(* gets no role, no write is sent and the stored record is unchanged, the  *)
(* client's copy is unchanged, and when the handler ends the client's      *)
(* loading flag is off.                                                    *)
C34_FullJoinRejected ==
    [][\A c \in Clients :
          (playerRole[c] = "none" /\ SlotsTaken(c) /\ JoinStep(c)) =>
             /\ playerRole'[c] = "none"
             /\ puts' = puts
             /\ store' = store
             /\ local' = local
             /\ JoinStepEnds(c) => ~loading'[c]]_vars

\* the colour that lost the game rec is the end of
LoserOf(rec) == IF rec.winner = "black" THEN "white" ELSE "black"

(* C35: the record handleRematch stores has exactly the initial position   *)
(* (14 white, 14 black pieces), scores 0-0, no winner, and currentTurn     *)
(* the loser of the finished game (white if black had won, otherwise       *)
(* black); the players record is left as it was; and the click leaves the  *)
(* clicking client's selection empty.                                      *)
C35_RematchResets ==
    [][\A c \in Clients :
          /\ HandleRematch(c) => selected'[c] = <<>>
          /\ \A k \in 1..Len(puts[c]) :
                (Lands(c, k) /\ puts[c][k].kind = "rematch") =>
                   /\ store'.board = BoardFrom(WHITE_INITIAL, BLACK_INITIAL)
                   /\ CountOf(store'.board, "white") = 14
                   /\ CountOf(store'.board, "black") = 14
                   /\ store'.scores = [white |-> 0, black |-> 0]
                   /\ store'.winner = "none"
                   /\ store'.currentTurn = LoserOf(puts[c][k].base)
                   /\ store'.players = store.players]_vars

\* the loser of a game black had won has clicked PLAY AGAIN while it held a piece
\* selected, and its record is stored: white is to move
C35_Witness ==
    \E c \in Clients :
        /\ puts[c] # <<>>
        /\ Head(puts[c]).kind = "rematch"
        /\ Head(puts[c]).landed
        /\ Head(puts[c]).base.winner = "black"
        /\ Head(puts[c]).base.board # store.board
        /\ store = Head(puts[c]).next
        /\ store.currentTurn = "white"
        /\ playerRole[c] = "black"
        /\ selected[c] = <<>>
        /\ nMoves = 1

(* C36: after any sequence of clicks on PLAY AGAIN, by one client, by both *)
(* or by the same client again, the two clients hold distinct roles, one   *)
(* black and one white, and each client's role is the slot its name has in *)
(* the stored players record.                                              *)
C36_RolesAfterRematch ==
    /\ playerRole["c1"] # playerRole["c2"]
    /\ \A c \in Clients :
          /\ playerRole[c] \in Colours
          /\ store.players[playerRole[c]] = c

(* C37: every move returned by enumeration is reachable by a click: the    *)
(* click map gives every move a key cell that leads to it, no two distinct *)
(* moves of one enumeration share a key cell, the key of a simple move is  *)
(* an empty target cell outside the selection, and the key of a push is    *)
(* its first pushed cell.                                                  *)
C37_ClickMapReachesMoves ==
    \A c \in Clients :
        LET ms == MovesOf(c)
            sel == selected[c]
        IN /\ \A i \in 1..Len(ms) :
                 \E k \in KeysOf(ms[i], sel) : MoveMapAt(ms, sel, k) = {ms[i]}
           /\ \A i, j \in 1..Len(ms) :
                 i # j => KeysOf(ms[i], sel) \cap KeysOf(ms[j], sel) = {}
           /\ \A m \in SimplesOf(ms) :
                 \E k \in Elems(m.cells) :
                    /\ KeysOf(m, sel) = {k}
                    /\ ~Includes(sel, k)
                    /\ ~Has(gameState.board, k)
           /\ \A m \in PushesOf(ms) : KeysOf(m, sel) = {m.pushed[1]}

=============================================================================
